---- MODULE Spec2Model ----
(***************************************************************************)
(* Model of the two Lambda handlers of cloud-cost-tracker:                 *)
(*   src/Lambda/lambda_function.py        (Notifier Handler)               *)
(*   src/API_Integration/api_lambda.py    (Log Reader Handler)             *)
(* and of the DynamoDB tables they share.                                  *)
(*                                                                         *)
(* Python values are tagged tuples, the tag first:                         *)
(*   <<"null">>  <<"str", s>>  <<"num", n>>  <<"Decimal", n>>              *)
(*   <<"list", <<v1, ..., vn>>>>                                           *)
(*   <<"dict", << <<k1, v1>>, ..., <<kn, vn>> >>>>   (keys distinct)       *)
(* The outcome of an expression is <<"ok", value>> or <<"raise", name>>.   *)
(***************************************************************************)
EXTENDS Integers, Sequences, FiniteSets, TLC

VARIABLES envN, envR, now, tables,
          pc, table_name, event, timestamp, message, putCalls, result,
          rpc, rTableName, rResult

vars == <<envN, envR, now, tables,
          pc, table_name, event, timestamp, message, putCalls, result,
          rpc, rTableName, rResult>>

(* ---------------------------- bounds ----------------------------------- *)

\* The clock advances at most this many microseconds past T0.
MaxTicks == 2
\* The largest table an execution starts from holds this many records more
\* than one page of a scan.
MaxExcess == 5

(* ------------------------- program constants --------------------------- *)

\* A page one record longer.
ScanLimitPlusOne == 10 + 1
ScanLimit == 10
UsecPerSec == 1000000
\* The first clock reading: one microsecond before a full second, so that
\* the readings cover a value whose microsecond field is 0.
T0 == UsecPerSec - 1

Absent == "<unset>"
DefaultTableName == "CostTrackerLogs"
OtherTableName == "AlertLogs"
TableNames == {DefaultTableName, OtherTableName}

\* The notifier processes (containers of the function): two, so that two
\* invocations can overlap.
Procs == {1, 2}

(* ------------------------- Python values ------------------------------- *)

Null == <<"null">>
Str(s) == <<"str", s>>
Num(n) == <<"num", n>>
List(elems) == <<"list", elems>>
Dict(pairs) == <<"dict", pairs>>
EmptyDict == Dict(<<>>)

Ok(v) == <<"ok", v>>
Raise(name) == <<"raise", name>>
IsOk(o) == o[1] = "ok"

HasKey(d, k) == \E i \in 1..Len(d[2]) : d[2][i][1] = k

\* dict.get(k, default) on a value that is a dict.
DictGet(d, k, default) ==
    IF HasKey(d, k)
    THEN d[2][CHOOSE i \in 1..Len(d[2]) : d[2][i][1] = k][2]
    ELSE default

\* v.get(k, default) on any value: only a dict has the method.
Get(v, k, default) ==
    IF v[1] = "dict" THEN Ok(DictGet(v, k, default))
    ELSE Raise("AttributeError")

\* v[-1] in place of v[0].
SubscriptLast(v) ==
    CASE v[1] = "list" -> IF Len(v[2]) > 0 THEN Ok(v[2][Len(v[2])]) ELSE Raise("IndexError")
      [] v[1] = "str"  -> IF v[2] # "" THEN Ok(Str(v[2])) ELSE Raise("IndexError")
      [] v[1] = "dict" -> Raise("KeyError")
      [] OTHER         -> Raise("TypeError")

\* v[0] on any value.  The strings the model indexes have at most one
\* character, so the first character of a non-empty one is the string.
Subscript0(v) ==
    CASE v[1] = "list" -> IF Len(v[2]) > 0 THEN Ok(v[2][1]) ELSE Raise("IndexError")
      [] v[1] = "str"  -> IF v[2] # "" THEN Ok(Str(v[2])) ELSE Raise("IndexError")
      [] v[1] = "dict" -> Raise("KeyError")
      [] OTHER         -> Raise("TypeError")

FallbackMessage == Str("Test alert")

GetRecords(ev) == Get(ev, "Records", List(<<EmptyDict>>))
GetSns(rec) == Get(rec, "Sns", EmptyDict)
GetMessage(sns) == Get(sns, "Message", FallbackMessage)

\* event.get("Records", [{}])[0].get("Sns", {}).get("Message", "Test alert"),
\* left to right; the first exception ends the evaluation.
ExtractMessage(ev) ==
    LET records == GetRecords(ev)
        first == Subscript0(records[2])
        sns == GetSns(first[2])
    IN  IF ~IsOk(records) THEN records
        ELSE IF ~IsOk(first) THEN first
        ELSE IF ~IsOk(sns) THEN sns
        ELSE GetMessage(sns[2])

\* datetime.isoformat(): the microsecond field is left out when it is 0.
IsoFormat(t) ==
    IF t % UsecPerSec = 0
    THEN <<t \div UsecPerSec>>
    ELSE <<t \div UsecPerSec, t % UsecPerSec>>

SuccessResponse == [statusCode |-> 200, body |-> "Log stored"]
NoResult == <<"none">>
Return(r) == <<"return", r>>

(* ---------------------------- the table -------------------------------- *)

Item(id, msg) == [id |-> id, message |-> msg]

\* put_item that keeps the record already stored under the id.
PutItemIfAbsent(tbl, item) ==
    IF \E r \in tbl : r.id = item.id THEN tbl ELSE tbl \cup {item}

\* put_item that replaces the table's contents.
PutItemReplaceAll(tbl, item) == {item}

\* put_item: upsert by the key attribute id.
PutItem(tbl, item) == {r \in tbl : r.id # item.id} \cup {item}

\* The records a table may hold before the first invocation: k alerts
\* written before T0, one per microsecond.
Preset(k, msg) == {Item(IsoFormat(T0 - j), msg) : j \in 1..k}

\* The position of an id in the order of time.
IdKey(id) == id[1] * UsecPerSec + (IF Len(id) = 2 THEN id[2] ELSE 0)

\* The records of a table, oldest first.
Ascending(tbl) ==
    [i \in 1..Cardinality(tbl) |->
        CHOOSE r \in tbl : Cardinality({q \in tbl : IdKey(q.id) < IdKey(r.id)}) = i - 1]

Reverse(s) == [i \in 1..Len(s) |-> s[Len(s) + 1 - i]]

\* A scan that projects the key only.
DeserializeKeyOnly(r) == Item(r.id, Null)

\* A number comes back from the table as a Decimal.
Deserialize(r) ==
    Item(r.id, IF r.message[1] = "num" THEN <<"Decimal", r.message[2]>> ELSE r.message)

\* The pages scan(Limit=limit) may return.  A scan reads the table from its
\* start, in the table's own order, and stops after limit records; it may
\* stop earlier (at 1 MB of data) and it reads without consistency, so a
\* page is a beginning, of at most limit records, of that order.  The order
\* is not the program's to choose: the model takes the order of the ids,
\* either way round.
ScanPages(tbl, limit) ==
    LET asc == Ascending(tbl)
        desc == Reverse(asc)
        most == IF Len(asc) < limit THEN Len(asc) ELSE limit
    IN  {SubSeq(asc, 1, n) : n \in 0..most} \cup {SubSeq(desc, 1, n) : n \in 0..most}

\* The responses of table.scan(Limit=limit): an Items list, or no Items.
ScanResponses(tbl, limit) ==
    {Dict(<<>>)} \cup
    {Dict(<< <<"Items", List([i \in 1..Len(page) |-> Deserialize(page[i])])>> >>) :
        page \in ScanPages(tbl, limit)}

\* json.dumps of a list of items: a Decimal is not JSON serializable.
JsonDumps(items) ==
    IF \E i \in 1..Len(items[2]) : items[2][i].message[1] = "Decimal"
    THEN Raise("TypeError")
    ELSE Ok(<<"json", items[2]>>)

ReaderResponse(body) ==
    [statusCode |-> 200, headers |-> "Content-Type: application/json", body |-> body]

\* Lines 11-16 of the Log Reader on one scan response.
ReaderOutcome(response) ==
    LET items == DictGet(response, "Items", List(<<>>))
        body == JsonDumps(items)
    IN  IF IsOk(body) THEN Return(ReaderResponse(body[2])) ELSE body

(* ------------------------------ events --------------------------------- *)

SnsRecord(m) == Dict(<< <<"Sns", Dict(<< <<"Message", m>> >>)>> >>)
WithRecords(v) == Dict(<< <<"Records", v>> >>)

CpuAlarm == Str("CPU alarm triggered")
DiskAlarm == Str("Disk alarm")

\* The four ways the spec lists of missing Records[0].Sns.Message.
EvEmptyObject == EmptyDict
EvEmptyRecords == WithRecords(List(<<>>))
EvNoSns == WithRecords(List(<<EmptyDict>>))
EvNoMessage == WithRecords(List(<< Dict(<< <<"Sns", EmptyDict>> >>) >>))
MissingPathEvents == {EvEmptyObject, EvEmptyRecords, EvNoSns, EvNoMessage}

\* Events that carry Records[0].Sns.Message = m, whatever follows the
\* first element of Records.
WellFormed(m, rest) == WithRecords(List(<<SnsRecord(m)>> \o rest))
Messages == {CpuAlarm, DiskAlarm, Str(""), Num(5)}
Rests == {<<>>, <<SnsRecord(CpuAlarm)>>, <<Str("x")>>}
WellFormedEvents == {WellFormed(m, rest) : m \in Messages, rest \in Rests}
EvCpu == WellFormed(CpuAlarm, <<>>)
EvNumber == WellFormed(Num(5), <<>>)

\* Other JSON objects: a Records that is no list, a first element or an Sns
\* that is no object.
OddEvents ==
    { WithRecords(Null),
      WithRecords(Str("x")),
      WithRecords(Str("")),
      WithRecords(EmptyDict),
      WithRecords(Num(1)),
      WithRecords(List(<<Str("x")>>)),
      WithRecords(List(<<Null>>)),
      WithRecords(List(<< Dict(<< <<"Sns", Null>> >>) >>)),
      WithRecords(List(<< Dict(<< <<"Sns", Str("x")>> >>) >>)) }

Events == MissingPathEvents \cup WellFormedEvents \cup OddEvents

\* The events of the specifications about the table and the interleavings.
FewEvents == {EvEmptyObject, EvCpu, EvEmptyRecords}

Requests == {Null, EvCpu}

(* ------------------------------ state ---------------------------------- *)

EnvValues == {Absent} \cup TableNames

\* The state after deployment: the setting DDB_TABLE of each function is
\* one of envNs and envRs, the tables hold k records for a k of sizes.
InitOver(envNs, envRs, sizes) ==
    /\ envN \in envNs
    /\ envR \in envRs
    /\ now = T0
    /\ \E k \in sizes :
         tables = [n \in TableNames |->
                     Preset(k, IF n = DefaultTableName THEN FallbackMessage ELSE DiskAlarm)]
    /\ pc = [p \in Procs |-> "cold"]
    /\ table_name = [p \in Procs |-> Absent]
    /\ event = [p \in Procs |-> Null]
    /\ timestamp = [p \in Procs |-> <<>>]
    /\ message = [p \in Procs |-> Null]
    /\ putCalls = [p \in Procs |-> <<>>]
    /\ result = [p \in Procs |-> NoResult]
    /\ rpc = "cold"
    /\ rTableName = Absent
    /\ rResult = NoResult

notifierVars == <<pc, table_name, event, timestamp, message, putCalls, result>>
readerVars == <<rpc, rTableName, rResult>>

\* The clock of the host advances by one microsecond.
Tick ==
    /\ now < T0 + MaxTicks
    /\ now' = now + 1
    /\ UNCHANGED <<envN, envR, tables, notifierVars, readerVars>>

(* ------------------------- Notifier Handler ---------------------------- *)

\* A cold start that falls back to the default table name.
NotifierInitWithDefault(p) ==
    /\ pc[p] = "cold"
    /\ pc' = [pc EXCEPT ![p] = "idle"]
    /\ table_name' = [table_name EXCEPT ![p] = IF envN = Absent THEN DefaultTableName ELSE envN]
    /\ UNCHANGED <<envN, envR, now, tables, event, timestamp, message, putCalls, result, readerVars>>

\* Cold start, lines 7-10: os.environ["DDB_TABLE"] raises KeyError when
\* the variable is not set, and the module is never loaded.
NotifierInit(p) ==
    /\ pc[p] = "cold"
    /\ IF envN = Absent
       THEN /\ pc' = [pc EXCEPT ![p] = "init_failed"]
            /\ UNCHANGED table_name
       ELSE /\ pc' = [pc EXCEPT ![p] = "idle"]
            /\ table_name' = [table_name EXCEPT ![p] = envN]
    /\ UNCHANGED <<envN, envR, now, tables, event, timestamp, message, putCalls, result, readerVars>>

\* A handler that remembers the message of its last put in the process and
\* uses it in place of the fallback string.
NotifierStartSticky(p, ev) ==
    /\ pc[p] = "idle"
    /\ event' = [event EXCEPT ![p] = ev]
    /\ putCalls' = [putCalls EXCEPT ![p] = <<>>]
    /\ LET o == ExtractMessage(ev)
           last == IF putCalls[p] = <<>> THEN FallbackMessage ELSE putCalls[p][1].message
       IN  IF IsOk(o)
           THEN /\ timestamp' = [timestamp EXCEPT ![p] = IsoFormat(now)]
                /\ message' = [message EXCEPT ![p] = IF o[2] = FallbackMessage THEN last ELSE o[2]]
                /\ result' = [result EXCEPT ![p] = NoResult]
                /\ pc' = [pc EXCEPT ![p] = "put"]
           ELSE /\ timestamp' = [timestamp EXCEPT ![p] = <<>>]
                /\ message' = [message EXCEPT ![p] = Null]
                /\ result' = [result EXCEPT ![p] = o]
                /\ pc' = pc
    /\ UNCHANGED <<envN, envR, now, tables, table_name, readerVars>>

\* Lines 13-17: the timestamp is read, then the message is extracted; an
\* exception of line 17 ends the invocation, and its locals with it.
NotifierStart(p, ev) ==
    /\ pc[p] = "idle"
    /\ event' = [event EXCEPT ![p] = ev]
    /\ putCalls' = [putCalls EXCEPT ![p] = <<>>]
    /\ LET o == ExtractMessage(ev)
       IN  IF IsOk(o)
           THEN /\ timestamp' = [timestamp EXCEPT ![p] = IsoFormat(now)]
                /\ message' = [message EXCEPT ![p] = o[2]]
                /\ result' = [result EXCEPT ![p] = NoResult]
                /\ pc' = [pc EXCEPT ![p] = "put"]
           ELSE /\ timestamp' = [timestamp EXCEPT ![p] = <<>>]
                /\ message' = [message EXCEPT ![p] = Null]
                /\ result' = [result EXCEPT ![p] = o]
                /\ pc' = pc
    /\ UNCHANGED <<envN, envR, now, tables, table_name, readerVars>>

\* A handler that catches a failed put and puts once more.
NotifierPutRetry(p, applied) ==
    /\ pc[p] = "put"
    /\ IsoFormat(now) # timestamp[p]
    /\ LET item == Item(timestamp[p], message[p])
       IN  /\ putCalls' = [putCalls EXCEPT ![p] = IF applied THEN Append(@, item)
                                                  ELSE Append(Append(@, item), item)]
           /\ tables' = [tables EXCEPT ![table_name[p]] = PutItem(@, item)]
           /\ result' = [result EXCEPT ![p] = Return(SuccessResponse)]
    /\ pc' = [pc EXCEPT ![p] = "idle"]
    /\ timestamp' = [timestamp EXCEPT ![p] = <<>>]
    /\ message' = [message EXCEPT ![p] = Null]
    /\ UNCHANGED <<envN, envR, now, table_name, event, readerVars>>

\* Lines 20-25: one put_item, which the table applies or rejects; the
\* response is returned after the put, an exception is not caught.  The put
\* is a call over the network: when it ends, the clock has moved on from
\* the reading that line 14 took.
NotifierPut(p, applied) ==
    /\ pc[p] = "put"
    /\ IsoFormat(now) # timestamp[p]
    /\ LET item == Item(timestamp[p], message[p])
       IN  /\ putCalls' = [putCalls EXCEPT ![p] = Append(@, item)]
           /\ IF applied
              THEN /\ tables' = [tables EXCEPT ![table_name[p]] = PutItem(@, item)]
                   /\ result' = [result EXCEPT ![p] = Return(SuccessResponse)]
              ELSE /\ tables' = tables
                   /\ result' = [result EXCEPT ![p] = Raise("ClientError")]
    /\ pc' = [pc EXCEPT ![p] = "idle"]
    /\ timestamp' = [timestamp EXCEPT ![p] = <<>>]
    /\ message' = [message EXCEPT ![p] = Null]
    /\ UNCHANGED <<envN, envR, now, table_name, event, readerVars>>

(* ------------------------ Log Reader Handler --------------------------- *)

\* Cold start, lines 5-7: os.environ.get with a default never raises.
ReaderInit ==
    /\ rpc = "cold"
    /\ rpc' = "idle"
    /\ rTableName' = IF envR = Absent THEN DefaultTableName ELSE envR
    /\ UNCHANGED <<envN, envR, now, tables, notifierVars, rResult>>

\* Line 9: the handler is entered; the request is never read.
ReaderInvoke(request) ==
    /\ rpc = "idle"
    /\ rpc' = "scan"
    /\ rResult' = NoResult
    /\ UNCHANGED <<envN, envR, now, tables, notifierVars, rTableName>>

\* Lines 10-16: one scan, which fails (the exception is not caught) or
\* answers; the answer is serialized and returned.
ReaderScan ==
    /\ rpc = "scan"
    /\ rpc' = "idle"
    /\ \/ rResult' = Raise("ClientError")
       \/ \E response \in ScanResponses(tables[rTableName], ScanLimit) :
            rResult' = ReaderOutcome(response)
    /\ UNCHANGED <<envN, envR, now, tables, notifierVars, rTableName>>

(* --------------------------- specifications ---------------------------- *)

\* The steps of the notifier processes of procs on the events of events.
NextOver(procs, events) ==
    \/ Tick
    \/ \E p \in procs : NotifierInit(p)
    \/ \E p \in procs, ev \in events : NotifierStart(p, ev)
    \/ \E p \in procs, applied \in BOOLEAN : NotifierPut(p, applied)
    \/ ReaderInit
    \/ \E request \in Requests : ReaderInvoke(request)
    \/ ReaderScan

\* Two concurrent notifiers and the reader, the setting absent or naming
\* either table for each function, every table holding one record.
Init == InitOver(EnvValues, EnvValues, {1})
Next == NextOver(Procs, FewEvents)
Spec == Init /\ [][Next]_vars

\* One notifier on every event shape; the reader scans the default table.
InitEvents == InitOver({OtherTableName}, {Absent}, {0})
NextEvents == NextOver({1}, Events)
SpecEvents == InitEvents /\ [][NextEvents]_vars

\* One notifier and the reader on the default table, which starts with
\* three records, with a full page, or with more than a page.
InitScan == InitOver({DefaultTableName}, {Absent}, {3, ScanLimit, ScanLimit + MaxExcess})
NextScan == NextOver({1}, {EvCpu, EvNumber})
SpecScan == InitScan /\ [][NextScan]_vars

(* ------------------------------ claims --------------------------------- *)

Succeeded == Return(SuccessResponse)
TableFailure == Raise("ClientError")

\* The invocation of p is over.
Completed(p) == pc[p] = "idle" /\ result[p] # NoResult

\* The steps of the handlers, as seen in a pair of states.
StartStep(p) ==
    /\ pc[p] = "idle"
    /\ <<pc[p], event[p], result[p], putCalls[p]>>' # <<pc[p], event[p], result[p], putCalls[p]>>
PutStep(p) == pc[p] = "put" /\ pc'[p] = "idle"
ScanStep == rpc = "scan" /\ rpc' = "idle"

Returned == rResult[1] = "return"
Body == rResult[2].body[2]
SameId(tbl, id) == {r \in tbl : r.id = id}

\* C1 (as claimed): every completed invocation on an event that misses
\* Records[0].Sns.Message in one of the four listed ways did not raise on the
\* event and issued one put, of a record whose message is "Test alert".
C1_MissingPathFallsBack ==
    \A p \in Procs :
        (Completed(p) /\ event[p] \in MissingPathEvents) =>
            /\ result[p] \in {Succeeded, TableFailure}
            /\ Len(putCalls[p]) = 1
            /\ putCalls[p][1].message = FallbackMessage

\* C2: on an event whose Records is a non-empty list with first element
\* carrying Sns.Message = m, the handler goes on to the put with message m
\* and the timestamp of its start; its one put is of {id: timestamp, message:
\* m}, whatever follows in Records; when the table applies it the table holds
\* exactly that record under the id and the response is {200, "Log stored"},
\* and the only other outcome is the table's failure.
C2_WellFormedMessageStored ==
    [][\A p \in Procs, m \in Messages, rest \in Rests :
        /\ (StartStep(p) /\ event'[p] = WellFormed(m, rest)) =>
              /\ pc'[p] = "put"
              /\ message'[p] = m
              /\ timestamp'[p] = IsoFormat(now)
        /\ (PutStep(p) /\ event[p] = WellFormed(m, rest)) =>
              LET item == Item(timestamp[p], m)
                  tn == table_name[p]
              IN  /\ putCalls'[p] = <<item>>
                  /\ \/ /\ result'[p] = Succeeded
                        /\ SameId(tables'[tn], item.id) = {item}
                        /\ \A r \in tables[tn] : r.id # item.id => r \in tables'[tn]
                     \/ /\ result'[p] = TableFailure
                        /\ tables' = tables
      ]_vars

C2_Witness ==
    \E p \in Procs :
        /\ event[p] = WellFormed(DiskAlarm, <<SnsRecord(CpuAlarm)>>)
        /\ result[p] = Succeeded
        /\ Len(putCalls[p]) = 1
        /\ putCalls[p][1].message = DiskAlarm
        /\ putCalls[p][1] \in tables[table_name[p]]

\* C3 (as claimed): whatever the shape of the event, every completed
\* invocation reached its put, and ended with the success response or with
\* the table's failure.
C3_NeverRaisesOnShape ==
    \A p \in Procs :
        Completed(p) =>
            /\ Len(putCalls[p]) = 1
            /\ result[p] \in {Succeeded, TableFailure}

C5_ExactlyMinRecords ==
    [][(ScanStep /\ rResult'[1] = "return") =>
        LET tbl == tables[rTableName]
            n == Cardinality(tbl)
            body == rResult'[2].body[2]
        IN  /\ Len(body) = IF n < 10 THEN n ELSE 10
            /\ \A i \in 1..Len(body) : body[i] \in tbl
            /\ \A i, j \in 1..Len(body) : body[i] = body[j] => i = j
      ]_vars

\* C5 (amended): a Log Reader invocation that returns on a table of n
\* records returns at most min(n, 10) records, each one a record of the
\* table at the time of the scan, none twice.
C5_AtMostMinRecords ==
    [][(ScanStep /\ rResult'[1] = "return") =>
        LET tbl == tables[rTableName]
            n == Cardinality(tbl)
            body == rResult'[2].body[2]
        IN  /\ Len(body) <= IF n < 10 THEN n ELSE 10
            /\ \A i \in 1..Len(body) : body[i] \in tbl
            /\ \A i, j \in 1..Len(body) : body[i] = body[j] => i = j
      ]_vars

C5_Witness ==
    /\ Returned
    /\ Cardinality(tables[rTableName]) = 3
    /\ Len(Body) = 2
    /\ \A i \in 1..Len(Body) : Body[i] \in tables[rTableName]

\* C6: when a put of q is applied after the put of another invocation p
\* that had the same timestamp id and was applied to the same table, the put
\* of q is no error, both invocations have the success response, and the
\* table holds exactly one record under the id, with the message of q.
C6_LastWriteWins ==
    [][\A p, q \in Procs :
        ( /\ p # q
          /\ result[p] = Succeeded
          /\ table_name[p] = table_name[q]
          /\ putCalls[p][1].id = timestamp[q]
          /\ PutStep(q)
          /\ tables' # tables \/ result'[q] = Succeeded ) =>
            /\ result'[q] = Succeeded
            /\ result'[p] = Succeeded
            /\ SameId(tables'[table_name[q]], timestamp[q]) = {Item(timestamp[q], message[q])}
      ]_vars

C6_Witness ==
    /\ result[1] = Succeeded
    /\ result[2] = Succeeded
    /\ table_name[1] = table_name[2]
    /\ putCalls[1][1].id = putCalls[2][1].id
    /\ putCalls[1][1].message # putCalls[2][1].message
    /\ Cardinality(SameId(tables[table_name[1]], putCalls[1][1].id)) = 1

C8_AbsentSetting ==
    /\ envN = Absent =>
          /\ \A p \in Procs :
                /\ pc[p] \in {"cold", "init_failed"}
                /\ event[p] = Null
                /\ putCalls[p] = <<>>
                /\ result[p] = NoResult
          /\ \A n \in TableNames : \A r \in tables[n] : IdKey(r.id) < T0
    /\ envR = Absent =>
          /\ rpc \in {"cold", "idle", "scan"}
          /\ rpc # "cold" => rTableName = "CostTrackerLogs"

C8_Witness ==
    /\ envN = Absent
    /\ envR = Absent
    /\ \A p \in Procs : pc[p] = "init_failed"
    /\ Returned
    /\ Len(Body) = 1
    /\ Body[1].message = FallbackMessage

\* C9 (as claimed): a record the table holds is in the table ever after,
\* with its message.
C9_RecordsNeverChange ==
    [][\A n \in TableNames : tables[n] \subseteq tables'[n]]_vars

\* C9 (amended): an id the table holds stays in the table ever after, under
\* exactly one record; the record of an id changes only at an applied put of
\* a notifier whose timestamp is that id, and then to the message of that
\* put.
C9_RecordsOnlyOverwritten ==
    [][\A n \in TableNames : \A r \in tables[n] :
        /\ Cardinality(SameId(tables'[n], r.id)) = 1
        /\ r \notin tables'[n] =>
              \E p \in Procs :
                  /\ PutStep(p)
                  /\ table_name[p] = n
                  /\ timestamp[p] = r.id
                  /\ Item(r.id, message[p]) \in tables'[n]
      ]_vars

C9_Witness ==
    \E p \in Procs :
        /\ result[p] = Succeeded
        /\ putCalls[p][1] \notin tables[table_name[p]]
        /\ SameId(tables[table_name[p]], putCalls[p][1].id) # {}
        /\ \E r \in tables[table_name[p]] : IdKey(r.id) < T0

\* C10: a step of the Log Reader changes no table and nothing of a
\* notifier; a step of a notifier changes nothing of the Log Reader nor of
\* another notifier, and in the tables at most the record under its own
\* timestamp, in its own table; what a notifier extracts and puts is decided
\* by its event and its timestamp alone, whatever the process did before.
C10_StatelessFrame ==
    [][/\ readerVars' # readerVars => (tables' = tables /\ notifierVars' = notifierVars)
       /\ \A p \in Procs :
            /\ (StartStep(p) \/ PutStep(p)) =>
                  /\ readerVars' = readerVars
                  /\ \A q \in Procs \ {p} :
                        <<pc[q], table_name[q], event[q], timestamp[q], message[q], putCalls[q], result[q]>>'
                          = <<pc[q], table_name[q], event[q], timestamp[q], message[q], putCalls[q], result[q]>>
            /\ StartStep(p) =>
                  /\ tables' = tables
                  /\ LET o == ExtractMessage(event'[p])
                     IN  IF IsOk(o)
                         THEN /\ message'[p] = o[2]
                              /\ timestamp'[p] = IsoFormat(now)
                              /\ result'[p] = NoResult
                         ELSE result'[p] = o
            /\ PutStep(p) =>
                  /\ putCalls'[p] = <<Item(timestamp[p], message[p])>>
                  /\ \A n \in TableNames :
                        /\ \A r \in tables[n] : r.id # timestamp[p] => r \in tables'[n]
                        /\ \A r \in tables'[n] \ tables[n] :
                              r.id = timestamp[p] /\ n = table_name[p]
      ]_vars

C10_Witness ==
    /\ pc[1] = "cold"
    /\ result[2] = Succeeded
    /\ event[2] = EvEmptyObject
    /\ Cardinality(tables[table_name[2]]) = 3
    /\ rTableName = table_name[2]
    /\ Returned
    /\ Len(Body) = 1

====
